---- MODULE Spec2Model ----
(***************************************************************************)
(* Model of scan_project.py: the recursive directory walk build_tree with  *)
(* its four filters, the package.json extraction, and the main command     *)
(* that checks the root, builds the tree and writes the documents.         *)
(*                                                                         *)
(* Text is modelled as sequences of character codes, so that lower(),      *)
(* startswith(), replace() and the sort key compare what Python compares.  *)
(***************************************************************************)
EXTENDS Integers, Sequences, FiniteSets

\* ------------------------------------------------------------------ bounds
MaxEntries == 2
MaxFilterEntries == 2

\* ------------------------------------------------------------- characters
Slash == 47
Backslash == 92
Dot == 46
Comma == 44
Newline == 10
Space == 32

\* str.lower() on one ASCII character
LowerChar(c) == IF c >= 65 /\ c <= 90 THEN c + 32 ELSE c

\* str.lower()
Lower(s) == [i \in 1..Len(s) |-> LowerChar(s[i])]

\* str.replace(old, new) for one-character old and new
Replace(s, old, new) == [i \in 1..Len(s) |-> IF s[i] = old THEN new ELSE s[i]]

\* str.startswith(prefix)
StartsWith(s, prefix) ==
    /\ Len(prefix) <= Len(s)
    /\ \A i \in 1..Len(prefix) : s[i] = prefix[i]

\* Python's < on str: lexicographic by code point
RECURSIVE StrLess(_, _)
StrLess(s, t) ==
    IF t = <<>> THEN FALSE
    ELSE IF s = <<>> THEN TRUE
    ELSE IF s[1] # t[1] THEN s[1] < t[1]
    ELSE StrLess(Tail(s), Tail(t))

\* ------------------------------------------------------------------ names
NameZ == <<90>>                   \* "Z"
NameAB == <<97, 66>>              \* "aB"
PackageJsonName == <<112, 97, 99, 107, 97, 103, 101, 46, 106, 115, 111, 110>>

Names == {NameZ, NameAB, PackageJsonName}

\* ------------------------------------------------------------- filesystem
\* An entry below the scan root: path is the sequence of names from the
\* root, kind is "dir" or "file", content names what a read of it yields.
\* A filesystem is [root |-> "dir" | "file" | "missing", entries |-> set].

\* What json.loads yields on a file's text: the text cannot be read or does
\* not parse (either way an exception inside the try block), or it
\* parses to a value.  A value is [t |-> "obj", m |-> members], a string
\* [t |-> "str", s |-> ...], a number [t |-> "num"] or a list [t |-> "list"].
JStr(s) == [t |-> "str", s |-> s]
JNum == [t |-> "num"]
JList == [t |-> "list"]
JObj(m) == [t |-> "obj", m |-> m]
EmptyMap == [k \in {} |-> ""]

ManifestContents == {"scriptsOnly", "full", "invalid", "badShape"}

FileContent(id) ==
    CASE id = "scriptsOnly" ->
           [parses |-> TRUE,
            data |-> JObj([scripts |-> JObj([build |-> JStr("x")])])]
      [] id = "full" ->
           [parses |-> TRUE,
            data |-> JObj([name |-> JStr("app"),
                           scripts |-> JObj([build |-> JStr("x")]),
                           dependencies |-> JObj([react |-> JStr("18")]),
                           devDependencies |-> JObj(EmptyMap)])]
      [] id = "badShape" ->
           [parses |-> TRUE,
            data |-> JObj([scripts |-> JObj([build |-> JNum])])]
      [] OTHER ->
           [parses |-> FALSE, data |-> JList]

PathsUpTo(d) == UNION {[1..n -> Names] : n \in 1..d}

EntryUniverse ==
    {[path |-> p, kind |-> "dir", content |-> "none"] : p \in PathsUpTo(MaxEntries)}
    \cup {[path |-> p, kind |-> "file", content |-> "text"] :
            p \in {q \in PathsUpTo(MaxEntries) : q[Len(q)] # PackageJsonName}}
    \cup {[path |-> p, kind |-> "file", content |-> c] :
            p \in {q \in PathsUpTo(MaxEntries) : q[Len(q)] = PackageJsonName},
            c \in ManifestContents}

Parent(p) == SubSeq(p, 1, Len(p) - 1)

Addable(S) ==
    {e \in EntryUniverse :
        /\ \A x \in S : x.path # e.path
        /\ \/ Len(e.path) = 1
           \/ \E x \in S : x.kind = "dir" /\ x.path = Parent(e.path)}

RECURSIVE EntrySets(_)
EntrySets(n) ==
    IF n = 0 THEN {{}}
    ELSE LET prev == EntrySets(n - 1)
         IN  prev \cup UNION {{S \cup {e} : e \in Addable(S)} : S \in prev}

FileSystems ==
    {[root |-> "dir", entries |-> S] : S \in EntrySets(MaxEntries)}
    \cup {[root |-> k, entries |-> {}] : k \in {"file", "missing"}}

\* -------------------------------------------------------------- pathlib
\* str(path.relative_to(root)).replace("\\", "/"): the names joined by the
\* separator, "." for the root itself, then backslashes turned into slashes.
RECURSIVE JoinNames(_)
JoinNames(p) ==
    IF Len(p) = 0 THEN <<Dot>>
    ELSE IF Len(p) = 1 THEN p[1]
    ELSE JoinNames(Parent(p)) \o <<Slash>> \o p[Len(p)]

RelStr(p) == Replace(JoinNames(p), Backslash, Slash)

\* The directory vanishes while the walk runs: "beforeInspect" after its
\* parent listed it and before is_file()/is_dir() look at it, "beforeList"
\* after is_dir() answered True and before its own iterdir().
NoVanish == [phase |-> "none", path |-> <<>>]

\* Path.is_file()
is_file(e) == e.kind = "file"

\* Path.is_dir()
is_dir(e, van) ==
    /\ e.kind = "dir"
    /\ ~(van.phase = "beforeInspect" /\ van.path = e.path)

ChildEntries(fsys, current) ==
    {e \in fsys.entries : Len(e.path) = Len(current) + 1 /\ Parent(e.path) = current}

EntryName(e) == e.path[Len(e.path)]

\* Path.iterdir(): the entries in the order the OS hands them out, which is
\* here the descending code-point order of the names.
RECURSIVE iterdir(_)
iterdir(S) ==
    IF S = {} THEN <<>>
    ELSE LET first == CHOOSE e \in S :
                        \A x \in S : x = e \/ StrLess(EntryName(x), EntryName(e))
         IN  <<first>> \o iterdir(S \ {first})

\* the key without .lower(): names compared as they are
SortKey_CaseSensitive(e) == [isFile |-> is_file(e), low |-> EntryName(e)]

\* key=lambda p: (p.is_file(), p.name.lower())
SortKey(e) == [isFile |-> is_file(e), low |-> Lower(EntryName(e))]

\* tuple comparison of two keys: False < True, then the lowered names
KeyLess(k1, k2) ==
    \/ ~k1.isFile /\ k2.isFile
    \/ k1.isFile = k2.isFile /\ StrLess(k1.low, k2.low)

\* sorted(): stable, an entry goes after the entries whose key is not greater
RECURSIVE InsertSorted(_, _)
InsertSorted(sortedItems, e) ==
    IF sortedItems = <<>> THEN <<e>>
    ELSE IF KeyLess(SortKey(e), SortKey(sortedItems[1]))
         THEN <<e>> \o sortedItems
         ELSE <<sortedItems[1]>> \o InsertSorted(Tail(sortedItems), e)

RECURSIVE sorted(_)
sorted(items) ==
    IF items = <<>> THEN <<>>
    ELSE InsertSorted(sorted(SubSeq(items, 1, Len(items) - 1)), items[Len(items)])

\* ---------------------------------------------------------------- models
ManifestFields == {"scripts", "dependencies", "devDependencies"}

None == [none |-> TRUE]
Some(v) == [none |-> FALSE, val |-> v]

\* Dict[str, str] accepts a JSON object whose values are all strings
IsStrMap(v) == v.t = "obj" /\ \A k \in DOMAIN v.m : v.m[k].t = "str"

StrMap(v) == [k \in DOMAIN v.m |-> v.m[k].s]

\* PackageJson.model_validate(data).model_dump(exclude_none=True): the three
\* fields, each the document's mapping or the default_factory's empty dict;
\* other keys of the document are ignored.  No field is ever None, so
\* exclude_none drops nothing.
PackageJsonValid(data) ==
    /\ data.t = "obj"
    /\ \A f \in ManifestFields \cap DOMAIN data.m : IsStrMap(data.m[f])

\* the dump leaving out the fields the document does not hold
PackageJsonDump_HeldOnly(data) ==
    [f \in ManifestFields \cap DOMAIN data.m |-> StrMap(data.m[f])]

PackageJsonDump(data) ==
    [f \in ManifestFields |->
        IF f \in DOMAIN data.m THEN StrMap(data.m[f]) ELSE EmptyMap]

\* the warning printed for text that does not parse only
extract_package_json_info_QuietShape(e) ==
    LET c == FileContent(e.content)
    IN  IF c.parses /\ PackageJsonValid(c.data)
        THEN [info |-> PackageJsonDump(c.data), warned |-> FALSE]
        ELSE [info |-> EmptyMap, warned |-> ~c.parses]

\* extract_package_json_info: the dump, or one warning and {} on any failure
extract_package_json_info(e) ==
    LET c == FileContent(e.content)
    IN  IF c.parses /\ PackageJsonValid(c.data)
        THEN [info |-> PackageJsonDump(c.data), warned |-> FALSE]
        ELSE [info |-> EmptyMap, warned |-> TRUE]

\* FileNode(path=..., descripcion="", **file_info)
FileNode(path, file_info) ==
    [type |-> "file", path |-> path, descripcion |-> "",
     scripts |-> IF "scripts" \in DOMAIN file_info
                 THEN Some(file_info["scripts"]) ELSE None,
     dependencies |-> IF "dependencies" \in DOMAIN file_info
                      THEN Some(file_info["dependencies"]) ELSE None,
     devDependencies |-> IF "devDependencies" \in DOMAIN file_info
                         THEN Some(file_info["devDependencies"]) ELSE None]

\* DirNode(path=...): children is the insertion-ordered dict, a sequence of
\* [name, node]
DirNode(path, children) ==
    [type |-> "directory", path |-> path, descripcion |-> "", children |-> children]

\* ------------------------------------------------------------ build_tree
\* The filters are [ignore, discard_files_in, discard_all_in, discard_files].

\* the test made on the directory's own name instead of its relative path
InDiscardAllIn_ByName(current, cfg) ==
    current # <<>> /\ current[Len(current)] \in cfg.discard_all_in

\* relative_str = str(relative).replace("\\", "/"); if relative_str in discard_all_in
InDiscardAllIn(current, cfg) == RelStr(current) \in cfg.discard_all_in

\* the test made for directories only
Ignored_DirsOnly(item, cfg) == item.kind = "dir" /\ EntryName(item) \in cfg.ignore

\* if name in ignore
Ignored(item, cfg) == EntryName(item) \in cfg.ignore

\* if item.is_file() and name in discard_files
DiscardedFile(item, cfg) == is_file(item) /\ EntryName(item) \in cfg.discard_files

\* startswith with its two sides swapped
InDiscardFilesIn_Swapped(ruta_completa, cfg) ==
    \E df \in cfg.discard_files_in : StartsWith(df, ruta_completa)

\* any(ruta_completa.startswith(df) for df in discard_files_in)
InDiscardFilesIn(ruta_completa, cfg) ==
    \E df \in cfg.discard_files_in : StartsWith(ruta_completa, df)

\* current.iterdir() succeeds on a directory that is still there
CanList(fsys, current, van) ==
    /\ IF current = <<>>
       THEN fsys.root = "dir"
       ELSE \E e \in fsys.entries : e.path = current /\ e.kind = "dir"
    /\ ~(van.phase = "beforeList" /\ van.path = current)

\* file_info = extract_package_json_info(item) if name == "package.json" else {}
FileInfo(item) ==
    IF EntryName(item) = PackageJsonName
    THEN extract_package_json_info(item)
    ELSE [info |-> EmptyMap, warned |-> FALSE]

RECURSIVE build_tree(_, _, _, _)
RECURSIVE WalkItems(_, _, _, _, _)

\* The body of "for item in items", for the first item and then the rest.
\* flag_discard_files (line 126) is computed for a directory and never used;
\* rich_parent only feeds the console display.  Neither appears here.
\* acc holds the children built so far and the effects of the walk: the
\* directories iterdir() was called on, the files read, the warnings
\* printed, and whether an exception is propagating.
WalkItems(fsys, cfg, van, items, acc) ==
    IF items = <<>> \/ acc.raised THEN acc
    ELSE
      LET item == items[1]
          name == EntryName(item)
          ruta_completa == RelStr(item.path)
          next ==
            IF Ignored(item, cfg) THEN acc
            ELSE IF DiscardedFile(item, cfg) THEN acc
            ELSE IF is_dir(item, van) THEN
              LET child == build_tree(fsys, item.path, cfg, van)
              IN  [children |-> IF child.raised THEN acc.children
                                ELSE Append(acc.children,
                                            [name |-> name, node |-> child.node]),
                   listed |-> acc.listed \cup child.listed,
                   reads |-> acc.reads \cup child.reads,
                   warnings |-> acc.warnings \o child.warnings,
                   raised |-> child.raised]
            ELSE IF is_file(item) THEN
              IF InDiscardFilesIn(ruta_completa, cfg) THEN acc
              ELSE
                LET file_info == FileInfo(item)
                IN  [children |-> Append(acc.children,
                                         [name |-> name,
                                          node |-> FileNode(ruta_completa, file_info.info)]),
                     listed |-> acc.listed,
                     reads |-> IF name = PackageJsonName
                               THEN acc.reads \cup {item.path} ELSE acc.reads,
                     warnings |-> IF file_info.warned
                                  THEN Append(acc.warnings, item.path)
                                  ELSE acc.warnings,
                     raised |-> FALSE]
            ELSE acc
      IN  WalkItems(fsys, cfg, van, Tail(items), next)

build_tree(fsys, current, cfg, van) ==
    LET relative_str == RelStr(current)
    IN  IF InDiscardAllIn(current, cfg)
        THEN [raised |-> FALSE, node |-> DirNode(relative_str, <<>>),
              listed |-> {}, reads |-> {}, warnings |-> <<>>]
        ELSE IF ~CanList(fsys, current, van)
        THEN [raised |-> TRUE, node |-> DirNode(relative_str, <<>>),
              listed |-> {current}, reads |-> {}, warnings |-> <<>>]
        ELSE
          LET items == sorted(iterdir(ChildEntries(fsys, current)))
              r == WalkItems(fsys, cfg, van, items,
                             [children |-> <<>>, listed |-> {current}, reads |-> {},
                              warnings |-> <<>>, raised |-> FALSE])
          IN  [raised |-> r.raised, node |-> DirNode(relative_str, r.children),
               listed |-> r.listed, reads |-> r.reads, warnings |-> r.warnings]

\* --------------------------------------------------------------- options
IsSpace(c) == c \in {Space, Newline, 9, 13}

RECURSIVE StripLeft(_)
StripLeft(s) ==
    IF s # <<>> /\ IsSpace(s[1]) THEN StripLeft(Tail(s)) ELSE s

RECURSIVE StripRight(_)
StripRight(s) ==
    IF s # <<>> /\ IsSpace(s[Len(s)])
    THEN StripRight(SubSeq(s, 1, Len(s) - 1)) ELSE s

\* str.strip()
Strip(s) == StripRight(StripLeft(s))

\* str.splitlines() on text whose only line break is "\n"
RECURSIVE SplitLines(_)
SplitLines(s) ==
    IF s = <<>> THEN <<>>
    ELSE IF \E i \in 1..Len(s) : s[i] = Newline
    THEN LET i == CHOOSE j \in 1..Len(s) :
                     s[j] = Newline /\ \A k \in 1..(j - 1) : s[k] # Newline
         IN  <<SubSeq(s, 1, i - 1)>> \o SplitLines(SubSeq(s, i + 1, Len(s)))
    ELSE <<s>>

\* _read_list_option: a missing option and "" both give the empty set
_read_list_option(value) ==
    IF value = <<>> THEN {}
    ELSE LET lines == SplitLines(Replace(value, Comma, Newline))
         IN  {Strip(lines[i]) : i \in {j \in 1..Len(lines) : Strip(lines[j]) # <<>>}}

\* The text an operator types for a set of entries: "x, y"
RECURSIVE OptionText(_)
OptionText(S) ==
    IF S = {} THEN <<>>
    ELSE LET x == CHOOSE y \in S : \A z \in S : z = y \/ StrLess(y, z)
         IN  IF S = {x} THEN x
             ELSE x \o <<Comma, Space>> \o OptionText(S \ {x})

IgnoreCandidates == Names
DiscardFilesCandidates == Names
DiscardFilesInCandidates ==
    {<<97>>, NameAB, NameAB \o <<Slash>> \o NameZ}      \* "a", "aB", "aB/Z"
DiscardAllInCandidates ==
    {<<Dot>>, NameAB, NameAB \o <<Slash>> \o NameZ}     \* ".", "aB", "aB/Z"

FilterUniverse ==
    {<<"ignore", x>> : x \in IgnoreCandidates}
    \cup {<<"discard_files", x>> : x \in DiscardFilesCandidates}
    \cup {<<"discard_files_in", x>> : x \in DiscardFilesInCandidates}
    \cup {<<"discard_all_in", x>> : x \in DiscardAllInCandidates}

Pick(S, option) == {x[2] : x \in {y \in S : y[1] = option}}

\* The command line: --ignore is a list of names, the other three are text
CommandLines ==
    {[ignore |-> Pick(S, "ignore"),
      discard_files_in |-> OptionText(Pick(S, "discard_files_in")),
      discard_all_in |-> OptionText(Pick(S, "discard_all_in")),
      discard_files |-> OptionText(Pick(S, "discard_files"))] :
        S \in {T \in SUBSET FilterUniverse : Cardinality(T) <= MaxFilterEntries}}

\* ------------------------------------------------------------- renderers
RootName == <<114>>               \* root.name, "r"

\* _fill_rich_tree: one line per child in dict order, a directory's line
\* carrying the trailing "/" and followed by the lines of its own children
RECURSIVE _fill_rich_tree(_, _)
_fill_rich_tree(children, depth) ==
    IF children = <<>> THEN <<>>
    ELSE LET c == children[1]
             own == IF c.node.type = "directory"
                    THEN <<[depth |-> depth, text |-> c.name \o <<Slash>>]>>
                         \o _fill_rich_tree(c.node.children, depth + 1)
                    ELSE <<[depth |-> depth, text |-> c.name]>>
         IN  own \o _fill_rich_tree(Tail(children), depth)

render_tree_plain(root_node, root_name) ==
    [written |-> TRUE, title |-> root_name,
     lines |-> _fill_rich_tree(root_node.children, 1)]

\* dict(model), the default= hook of json.dumps: pydantic iterates over every
\* field of the model, the ones holding None included
ModelFields(node) ==
    IF node.type = "directory"
    THEN <<"type", "path", "descripcion", "children">>
    ELSE <<"type", "path", "descripcion", "scripts", "dependencies", "devDependencies">>

\* json.dumps(structure, default=dict): an object per node with the keys
\* dict() hands over; None is written as null
RECURSIVE ToJson(_)
ToJson(node) ==
    IF node.type = "directory"
    THEN [keys |-> ModelFields(node), type |-> node.type, path |-> node.path,
          descripcion |-> node.descripcion,
          children |-> [i \in 1..Len(node.children) |->
                          [name |-> node.children[i].name,
                           value |-> ToJson(node.children[i].node)]]]
    ELSE [keys |-> ModelFields(node), type |-> node.type, path |-> node.path,
          descripcion |-> node.descripcion,
          scripts |-> node.scripts, dependencies |-> node.dependencies,
          devDependencies |-> node.devDependencies]

NotWritten == [written |-> FALSE]
NotBuilt == [built |-> FALSE]

\* ----------------------------------------------------------------- state
VARIABLES
    fs,           \* the filesystem under the project path
    opts,         \* the command line
    pc,           \* where main is
    filters,      \* the four filter sets handed to build_tree
    vanish,       \* the directory that vanished during the walk, if any
    structure,    \* structure[root.name], once built
    listed,       \* directories iterdir() was called on
    reads,        \* files whose text was read
    warnings,     \* files a warning was printed for, in order
    treeDoc,      \* the --tree-md document
    jsonDoc,      \* the --output document
    exitCode      \* the process exit status, -1 while running

vars == <<fs, opts, pc, filters, vanish, structure, listed, reads, warnings,
          treeDoc, jsonDoc, exitCode>>

NoFilters ==
    [ignore |-> {}, discard_files_in |-> {}, discard_all_in |-> {}, discard_files |-> {}]

Init ==
    /\ fs \in FileSystems
    /\ opts \in CommandLines
    /\ pc = "start"
    /\ filters = NoFilters
    /\ vanish = NoVanish
    /\ structure = NotBuilt
    /\ listed = {}
    /\ reads = {}
    /\ warnings = <<>>
    /\ treeDoc = NotWritten
    /\ jsonDoc = NotWritten
    /\ exitCode = -1

\* root.exists() in the place of root.is_dir()
RootIsDir_Exists(fsys) == fsys.root # "missing"

\* root.is_dir()
RootIsDir(fsys) == fsys.root = "dir"

\* main, lines 174-177: the root is not a directory
MainRejectRoot ==
    /\ pc = "start"
    /\ ~RootIsDir(fs)
    /\ pc' = "exit"
    /\ exitCode' = 1
    /\ UNCHANGED <<fs, opts, filters, vanish, structure, listed, reads, warnings,
                   treeDoc, jsonDoc>>

\* main, lines 174-181: the root is a directory, the options are read
MainReadOptions ==
    /\ pc = "start"
    /\ RootIsDir(fs)
    /\ filters' = [ignore |-> opts.ignore,
                   discard_files_in |-> _read_list_option(opts.discard_files_in),
                   discard_all_in |-> _read_list_option(opts.discard_all_in),
                   discard_files |-> _read_list_option(opts.discard_files)]
    /\ pc' = "scan"
    /\ UNCHANGED <<fs, opts, vanish, structure, listed, reads, warnings,
                   treeDoc, jsonDoc, exitCode>>

Vanishes(fsys) ==
    {NoVanish}
    \cup {[phase |-> "beforeList", path |-> <<>>]}
    \cup {[phase |-> ph, path |-> e.path] :
            e \in {x \in fsys.entries : x.kind = "dir"},
            ph \in {"beforeInspect", "beforeList"}}

\* main, lines 185-189: build_tree returns the tree
MainBuildTree(vans) ==
    /\ pc = "scan"
    /\ \E van \in vans :
         LET r == build_tree(fs, <<>>, filters, van)
         IN  /\ ~r.raised
             /\ vanish' = van
             /\ structure' = [built |-> TRUE, node |-> r.node]
             /\ listed' = r.listed
             /\ reads' = r.reads
             /\ warnings' = r.warnings
    /\ pc' = "built"
    /\ UNCHANGED <<fs, opts, filters, treeDoc, jsonDoc, exitCode>>

\* main, lines 185-189: build_tree raises, nothing catches the exception
\* and the interpreter ends the process with status 1
MainBuildTreeRaises(vans) ==
    /\ pc = "scan"
    /\ \E van \in vans :
         LET r == build_tree(fs, <<>>, filters, van)
         IN  /\ r.raised
             /\ vanish' = van
             /\ listed' = r.listed
             /\ reads' = r.reads
             /\ warnings' = r.warnings
    /\ pc' = "crashed"
    /\ exitCode' = 1
    /\ UNCHANGED <<fs, opts, filters, structure, treeDoc, jsonDoc>>

\* main, lines 194-200: the tree document, when --tree-md names a file
MainTreeMd ==
    /\ pc = "built"
    /\ \E tree_md \in BOOLEAN :
         treeDoc' = IF tree_md THEN render_tree_plain(structure.node, RootName)
                    ELSE treeDoc
    /\ pc' = "rendered"
    /\ UNCHANGED <<fs, opts, filters, vanish, structure, listed, reads, warnings,
                   jsonDoc, exitCode>>

\* main, lines 202-207: the JSON document; main returns
MainWriteJson ==
    /\ pc = "rendered"
    /\ jsonDoc' = [written |-> TRUE, key |-> RootName, value |-> ToJson(structure.node)]
    /\ pc' = "done"
    /\ exitCode' = 0
    /\ UNCHANGED <<fs, opts, filters, vanish, structure, listed, reads, warnings,
                   treeDoc>>

\* The scan of a filesystem that nothing else touches while main runs
Next ==
    \/ MainRejectRoot
    \/ MainReadOptions
    \/ MainBuildTree({NoVanish})
    \/ MainTreeMd
    \/ MainWriteJson

Spec == Init /\ [][Next]_vars

\* The scan of a filesystem in which a directory may vanish during the walk
NextRace ==
    \/ MainRejectRoot
    \/ MainReadOptions
    \/ MainBuildTree(Vanishes(fs))
    \/ MainBuildTreeRaises(Vanishes(fs))
    \/ MainTreeMd
    \/ MainWriteJson

SpecRace == Init /\ [][NextRace]_vars

\* ------------------------------------------------- reading a built tree
Built == structure.built

\* The name paths of the nodes of a tree, <<>> for its root
RECURSIVE TreePaths(_)
TreePaths(node) ==
    IF node.type = "directory"
    THEN {<<>>} \cup UNION {{<<node.children[i].name>> \o q :
                               q \in TreePaths(node.children[i].node)} :
                            i \in 1..Len(node.children)}
    ELSE {<<>>}

\* The node a name path leads to
RECURSIVE NodeAt(_, _)
NodeAt(node, p) ==
    IF p = <<>> THEN node
    ELSE LET i == CHOOSE j \in 1..Len(node.children) : node.children[j].name = p[1]
         IN  NodeAt(node.children[i].node, Tail(p))

\* The member of the JSON document a name path leads to
RECURSIVE JsonAt(_, _)
JsonAt(obj, p) ==
    IF p = <<>> THEN obj
    ELSE LET i == CHOOSE j \in 1..Len(obj.children) : obj.children[j].name = p[1]
         IN  JsonAt(obj.children[i].value, Tail(p))

HasNode(p) == Built /\ p \in TreePaths(structure.node)

IsPathPrefix(p, q) == Len(p) <= Len(q) /\ SubSeq(q, 1, Len(p)) = p

FileEntries == {e \in fs.entries : e.kind = "file"}
DirEntries == {e \in fs.entries : e.kind = "dir"}

\* The proper ancestors of a path, the root included
Ancestors(p) == {SubSeq(p, 1, n) : n \in 0..(Len(p) - 1)}

\* An entry no ignore name and no discard-all directory cuts off
NotCutOff(e) ==
    /\ \A i \in 1..Len(e.path) : e.path[i] \notin filters.ignore
    /\ \A a \in Ancestors(e.path) : RelStr(a) \notin filters.discard_all_in

\* ---------------------------------------------------------------- claims

\* C1: in the tree build_tree returns, the children of every directory node
\* have all directory children before all file children, and within each of
\* the two groups the names ascend case-insensitively.
C1_ChildrenOrdered ==
    Built =>
      \A p \in TreePaths(structure.node) :
        LET n == NodeAt(structure.node, p)
        IN  n.type = "directory" =>
              \A i, j \in 1..Len(n.children) :
                i < j =>
                  /\ ~(n.children[i].node.type = "file"
                       /\ n.children[j].node.type = "directory")
                  /\ n.children[i].node.type = n.children[j].node.type =>
                       ~StrLess(Lower(n.children[j].name), Lower(n.children[i].name))

\* A directory node holds two children whose order is not the code-point
\* order of their names
C1_Witness ==
    /\ Built
    /\ \E p \in TreePaths(structure.node) :
         LET n == NodeAt(structure.node, p)
         IN  /\ n.type = "directory"
             /\ \E i, j \in 1..Len(n.children) :
                  /\ i < j
                  /\ n.children[i].node.type = n.children[j].node.type
                  /\ StrLess(n.children[j].name, n.children[i].name)

\* C2: an entry whose bare name is in the ignore set has no node in the
\* tree, and neither has anything below it, whatever the other filters hold.
C2_IgnoredAbsent ==
    Built =>
      \A e \in fs.entries :
        EntryName(e) \in filters.ignore =>
          \A d \in fs.entries : IsPathPrefix(e.path, d.path) => ~HasNode(d.path)

\* An ignored directory with an entry below it, in a directory the walk
\* lists, while another filter is set too
C2_Witness ==
    /\ Built
    /\ filters.discard_files_in \cup filters.discard_all_in \cup filters.discard_files # {}
    /\ \E e \in DirEntries :
         /\ EntryName(e) \in filters.ignore
         /\ Parent(e.path) \in listed
         /\ \E d \in fs.entries : d # e /\ IsPathPrefix(e.path, d.path)

\* C3: a directory the walk reaches whose relative path equals an entry of
\* discard_all_in gets a node with no children, and neither it nor anything
\* below it is listed.
C3_DiscardAllEmpty ==
    Built =>
      \A p \in TreePaths(structure.node) :
        (NodeAt(structure.node, p).type = "directory"
         /\ RelStr(p) \in filters.discard_all_in) =>
           /\ NodeAt(structure.node, p).children = <<>>
           /\ \A q \in listed : ~IsPathPrefix(p, q)
           /\ \A q \in TreePaths(structure.node) : IsPathPrefix(p, q) => q = p

\* A discard-all directory that has a node and is not empty on disk
C3_Witness ==
    /\ Built
    /\ \E e \in DirEntries :
         /\ HasNode(e.path)
         /\ RelStr(e.path) \in filters.discard_all_in
         /\ \E d \in fs.entries : Parent(d.path) = e.path

\* C4: a file whose relative path starts with an entry of discard_files_in,
\* or whose bare name is in discard_files, has no file node at any depth.
C4_DiscardedFilesAbsent ==
    Built =>
      \A e \in FileEntries :
        (\/ \E df \in filters.discard_files_in : StartsWith(RelStr(e.path), df)
         \/ EntryName(e) \in filters.discard_files) =>
            ~HasNode(e.path)

\* A file below the root's own level that only discard_files_in suppresses,
\* in a directory the walk lists
C4_Witness ==
    /\ Built
    /\ \E e \in FileEntries :
         /\ Len(e.path) > 1
         /\ Parent(e.path) \in listed
         /\ EntryName(e) \notin filters.ignore \cup filters.discard_files
         /\ \E df \in filters.discard_files_in : StartsWith(RelStr(e.path), df)

\* The package.json files that have a node
ManifestNodes ==
    {e \in FileEntries : EntryName(e) = PackageJsonName /\ HasNode(e.path)}

\* The file holds a valid document with no member besides the three fields
HoldsOnlyManifestFields(e) ==
    LET c == FileContent(e.content)
    IN  /\ c.parses
        /\ c.data.t = "obj"
        /\ DOMAIN c.data.m \subseteq ManifestFields
        /\ \A f \in DOMAIN c.data.m : IsStrMap(c.data.m[f])

\* C5 as stated: for a surviving package.json holding a valid document with
\* only a subset of the three fields, the node carries the fields the document
\* holds, with the document's mappings, and the others are not present.
C5_AbsentFieldsOmitted ==
    Built =>
      \A e \in ManifestNodes :
        HoldsOnlyManifestFields(e) =>
          LET m == FileContent(e.content).data.m
              n == NodeAt(structure.node, e.path)
          IN  \A f \in ManifestFields :
                IF f \in DOMAIN m
                THEN ~n[f].none /\ n[f].val = StrMap(m[f])
                ELSE n[f].none

\* C5 amended: for such a file the node carries all three fields: the ones the
\* document holds with the document's mappings, the others as empty mappings.
C5_AbsentFieldsEmpty ==
    Built =>
      \A e \in ManifestNodes :
        HoldsOnlyManifestFields(e) =>
          LET m == FileContent(e.content).data.m
              n == NodeAt(structure.node, e.path)
          IN  \A f \in ManifestFields :
                IF f \in DOMAIN m
                THEN ~n[f].none /\ n[f].val = StrMap(m[f])
                ELSE ~n[f].none /\ DOMAIN n[f].val = {}

\* The node of a package.json that holds scripts and nothing else
C5_Witness ==
    /\ Built
    /\ \E e \in ManifestNodes :
         /\ HoldsOnlyManifestFields(e)
         /\ DOMAIN FileContent(e.content).data.m = {"scripts"}
         /\ ~NodeAt(structure.node, e.path).scripts.none

Count(seq, x) == Cardinality({i \in 1..Len(seq) : seq[i] = x})

InvalidManifest(e) ==
    LET c == FileContent(e.content)
    IN  ~(c.parses /\ PackageJsonValid(c.data))

\* An entry none of the four filters excludes
Survives(e) ==
    /\ NotCutOff(e)
    /\ e.kind = "file" =>
         /\ EntryName(e) \notin filters.discard_files
         /\ ~\E df \in filters.discard_files_in : StartsWith(RelStr(e.path), df)

\* C6: a surviving package.json that does not parse or has the wrong shape
\* gets exactly one warning and a node without manifest fields; no other file
\* is warned about, every entry the filters let through still gets its node,
\* and build_tree does not raise.
C6_InvalidManifestRecovered ==
    /\ pc = "scan" => ~build_tree(fs, <<>>, filters, NoVanish).raised
    /\ Built =>
         /\ \A e \in fs.entries : Survives(e) => HasNode(e.path)
         /\ \A e \in ManifestNodes :
              InvalidManifest(e) =>
                /\ Count(warnings, e.path) = 1
                /\ \A f \in ManifestFields : NodeAt(structure.node, e.path)[f].none
         /\ Len(warnings) = Cardinality({e \in ManifestNodes : InvalidManifest(e)})

\* A package.json whose members have the wrong shape was warned about, and a
\* file the walk comes to after it has its node
C6_Witness ==
    /\ Built
    /\ \E e \in ManifestNodes :
         /\ FileContent(e.content).parses
         /\ InvalidManifest(e)
         /\ Count(warnings, e.path) = 1
         /\ \E d \in FileEntries :
              /\ Parent(d.path) = Parent(e.path)
              /\ StrLess(Lower(EntryName(e)), Lower(EntryName(d)))
              /\ HasNode(d.path)

\* C7: when the root is not an existing directory main ends with a non-zero
\* status before build_tree runs: nothing is listed or read, no tree is
\* built and neither document is written.
C7_RootRejected ==
    /\ fs.root # "dir" => pc \in {"start", "exit"}
    /\ pc = "exit" =>
         /\ fs.root # "dir"
         /\ exitCode = 1
         /\ listed = {} /\ reads = {}
         /\ ~structure.built /\ ~treeDoc.written /\ ~jsonDoc.written

\* main has ended on a root that is a file
C7_Witness == pc = "exit" /\ fs.root = "file" /\ exitCode = 1

\* C8 as stated: a directory that vanishes between its parent's listing and
\* its own does not abort the scan.
C8_VanishedDirectoryRecovered ==
    (vanish.phase # "none" /\ vanish.path # <<>>) =>
        /\ pc # "crashed"
        /\ exitCode \in {-1, 0}

\* C9 as stated: the node of a file not named package.json has no scripts,
\* dependencies or devDependencies, neither in the tree nor as keys of its
\* object in the JSON document.
C9_ManifestKeysOmitted ==
    /\ Built =>
         \A p \in TreePaths(structure.node) :
           (NodeAt(structure.node, p).type = "file" /\ p[Len(p)] # PackageJsonName) =>
              \A f \in ManifestFields : NodeAt(structure.node, p)[f].none
    /\ jsonDoc.written =>
         \A p \in TreePaths(structure.node) :
           (NodeAt(structure.node, p).type = "file" /\ p[Len(p)] # PackageJsonName) =>
              LET keys == JsonAt(jsonDoc.value, p).keys
              IN  \A f \in ManifestFields : \A i \in 1..Len(keys) : keys[i] # f

\* C10 as stated: among the files the other three filters let through, a file
\* has no node exactly when its relative path starts with a discard_files_in
\* entry followed by "/"; directories are never suppressed by discard_files_in.
C10_PrefixWithSeparator ==
    Built =>
      /\ \A e \in FileEntries :
           (NotCutOff(e) /\ EntryName(e) \notin filters.discard_files) =>
              (~HasNode(e.path) <=>
                 \E df \in filters.discard_files_in :
                    StartsWith(RelStr(e.path), df \o <<Slash>>))
      /\ \A e \in DirEntries : NotCutOff(e) => HasNode(e.path)

====
